---- MODULE Spec2Model ----
(***************************************************************************)
(* Voice document assistant (src/main.py and its components): the template *)
(* detector and filler, the per-session daily quota tracker, and the       *)
(* script run of main() that wires them to the speech and language-model   *)
(* collaborators.                                                          *)
(*                                                                         *)
(* Python strings are sequences of one-character strings, so that `in`,    *)
(* str.replace, str.split, str.strip and str.lower are computed character  *)
(* by character as the interpreter computes them.                          *)
(***************************************************************************)
EXTENDS Integers, Sequences, FiniteSets, TLC

VARIABLES
    \* ---- the script run of main() over st.session_state ----
    session_state,   \* st.session_state (main.py:159-172, 71-146)
    today,           \* datetime.now().date(), as a day number
    turn,            \* what the last script run did (observation of one run)
    calls,           \* collaborator calls since the last quota reset
    raises,          \* runs that ended in the except handler since the last reset
    turns,           \* runs with recorded audio taken so far
    \* ---- fill_template_from_dict, one loop iteration per step ----
    template_text,   \* main.py:21 parameter
    data_dict,       \* main.py:21 parameter, in dict iteration order
    filled_text,     \* main.py:23 the working text
    pos,             \* number of keys of data_dict already processed
    prev_text,       \* the working text before the last processed key
    path,            \* which branch of the loop body the last key took
    pc,              \* "loop" | "returned"
    \* ---- is_template ----
    text,            \* main.py:17 parameter
    detected,        \* "unknown" | TRUE-FALSE result as "yes" / "no"
    \* ---- the quota functions called one at a time (main.py:85-146) ----
    quota_state,     \* st.session_state as the quota functions see it
    quota_day,       \* datetime.now().date(), as a day number
    increments,      \* increments not rolled back since fresh or the last reset
    day_changed,     \* the date moved since fresh or the last reset
    quota_op         \* the last call and what it returned

vars ==
    << session_state, today, turn, calls, raises, turns,
       template_text, data_dict, filled_text, pos, prev_text, path, pc,
       text, detected,
       quota_state, quota_day, increments, day_changed, quota_op >>

quotaVars ==
    << quota_state, quota_day, increments, day_changed, quota_op >>

appVars ==
    << session_state, today, turn, calls, raises, turns >>

fillVars ==
    << template_text, data_dict, filled_text, pos, prev_text, path, pc >>

detectVars ==
    << text, detected >>

(***************************************************************************)
(* Bounds of the model.                                                    *)
(***************************************************************************)
MaxTplLen ==
    4
MaxKeys ==
    2
MaxTextLen ==
    4
MaxDay ==
    1
MaxTurns ==
    2
LateTurns ==
    19
MaxIncrements ==
    22

(***************************************************************************)
(* Python string primitives.                                               *)
(***************************************************************************)
\* str.lower() on the ASCII letters, as a table from each upper-case letter
LowerOf ==
    [A |-> "a", B |-> "b", C |-> "c", D |-> "d", E |-> "e", F |-> "f",
     G |-> "g", H |-> "h", I |-> "i", J |-> "j", K |-> "k", L |-> "l",
     M |-> "m", N |-> "n", O |-> "o", P |-> "p", Q |-> "q", R |-> "r",
     S |-> "s", T |-> "t", U |-> "u", V |-> "v", W |-> "w", X |-> "x",
     Y |-> "y", Z |-> "z"]

\* str.lower() on one character
LowerChar(c) ==
    IF c \in DOMAIN LowerOf THEN LowerOf[c] ELSE c

\* s.lower()
PyLower(s) ==
    [i \in 1..Len(s) |-> LowerChar(s[i])]

\* sub in s
PyIn(sub, s) ==
    \/ sub = << >>
    \/ \E i \in 0..(Len(s) - Len(sub)) :
           s[i + 1] = sub[1] /\ SubSeq(s, i + 1, i + Len(sub)) = sub

\* s.replace(old, new) for a non-empty old: leftmost, non-overlapping, all
RECURSIVE PyReplace(_, _, _)
PyReplace(s, old, new) ==
    IF Len(s) < Len(old) THEN s
    ELSE IF SubSeq(s, 1, Len(old)) = old
         THEN new \o PyReplace(SubSeq(s, Len(old) + 1, Len(s)), old, new)
         ELSE << s[1] >> \o PyReplace(Tail(s), old, new)

\* s.split(sep) for a one-character sep
RECURSIVE PySplit(_, _)
PySplit(s, sep) ==
    IF \A i \in 1..Len(s) : s[i] # sep THEN << s >>
    ELSE LET i == CHOOSE j \in 1..Len(s) :
                      s[j] = sep /\ \A k \in 1..(j - 1) : s[k] # sep
         IN  << SubSeq(s, 1, i - 1) >> \o PySplit(SubSeq(s, i + 1, Len(s)), sep)

\* s.strip(chars): leading and trailing characters of the set removed
RECURSIVE PyLStrip(_, _)
PyLStrip(s, chars) ==
    IF s # << >> /\ s[1] \in chars THEN PyLStrip(Tail(s), chars) ELSE s

RECURSIVE PyRStrip(_, _)
PyRStrip(s, chars) ==
    IF s # << >> /\ s[Len(s)] \in chars
    THEN PyRStrip(SubSeq(s, 1, Len(s) - 1), chars) ELSE s

PyStrip(s, chars) ==
    PyRStrip(PyLStrip(s, chars), chars)

Digits ==
    << "0", "1", "2", "3", "4", "5", "6", "7", "8", "9" >>

\* str(n) for a non-negative int
RECURSIVE IntStr(_)
IntStr(n) ==
    IF n < 10 THEN << Digits[n + 1] >>
    ELSE IntStr(n \div 10) \o << Digits[(n % 10) + 1] >>

\* A JSON value is a string or a number: [t |-> "str", v |-> chars] or
\* [t |-> "int", v |-> n].  str(value) as main.py:45 applies it.
StrVal(s) ==
    [t |-> "str", v |-> s]

IntVal(n) ==
    [t |-> "int", v |-> n]

PyStr(value) ==
    IF value.t = "int" THEN IntStr(value.v) ELSE value.v

\* A dict is the sequence of its items in iteration order, keys distinct.
Item(k, v) ==
    [key |-> k, value |-> v]

DictHas(d, k) ==
    \E i \in 1..Len(d) : d[i].key = k

DictGet(d, k) ==
    d[CHOOSE i \in 1..Len(d) : d[i].key = k].value

SeqHas(list, x) ==
    \E i \in 1..Len(list) : list[i] = x

(***************************************************************************)
(* is_template (main.py:17-19).  Python parses                             *)
(*   a and b or c and d   as   (a and b) or (c and d).                     *)
(***************************************************************************)
is_template_precedence_slip(t) ==
    PyIn(<< "[" >>, t)
    /\ (PyIn(<< "]" >>, t) \/ PyIn(<< "{", "{" >>, t))
    /\ PyIn(<< "}", "}" >>, t)

is_template(t) ==
    \/ PyIn(<< "[" >>, t) /\ PyIn(<< "]" >>, t)
    \/ PyIn(<< "{", "{" >>, t) /\ PyIn(<< "}", "}" >>, t)

(***************************************************************************)
(* fill_template_from_dict (main.py:21-69).                                *)
(***************************************************************************)
s_FullName ==
    <<"F", "u", "l", "l", " ", "N", "a", "m", "e">>
s_Name ==
    <<"N", "a", "m", "e">>
s_EmployeeName ==
    <<"E", "m", "p", "l", "o", "y", "e", "e", " ", "N", "a", "m", "e">>
s_PersonName ==
    <<"P", "e", "r", "s", "o", "n", " ", "N", "a", "m", "e">>
s_Department ==
    <<"D", "e", "p", "a", "r", "t", "m", "e", "n", "t">>
s_Dept ==
    <<"D", "e", "p", "t">>
s_Team ==
    <<"T", "e", "a", "m">>
s_Division ==
    <<"D", "i", "v", "i", "s", "i", "o", "n">>
s_Company ==
    <<"C", "o", "m", "p", "a", "n", "y">>
s_Organization ==
    <<"O", "r", "g", "a", "n", "i", "z", "a", "t", "i", "o", "n">>
s_OrganizationName ==
    <<"O", "r", "g", "a", "n", "i", "z", "a", "t", "i", "o", "n", " ", "N", "a", "m", "e">>
s_Employer ==
    <<"E", "m", "p", "l", "o", "y", "e", "r">>
s_StartDate ==
    <<"S", "t", "a", "r", "t", " ", "D", "a", "t", "e">>
s_JoiningDate ==
    <<"J", "o", "i", "n", "i", "n", "g", " ", "D", "a", "t", "e">>
s_HireDate ==
    <<"H", "i", "r", "e", " ", "D", "a", "t", "e">>
s_DateJoined ==
    <<"D", "a", "t", "e", " ", "J", "o", "i", "n", "e", "d">>
s_JobTitle ==
    <<"J", "o", "b", " ", "T", "i", "t", "l", "e">>
s_Position ==
    <<"P", "o", "s", "i", "t", "i", "o", "n">>
s_Role ==
    <<"R", "o", "l", "e">>
s_Designation ==
    <<"D", "e", "s", "i", "g", "n", "a", "t", "i", "o", "n">>
s_ManagerName ==
    <<"M", "a", "n", "a", "g", "e", "r", " ", "N", "a", "m", "e">>
s_Manager ==
    <<"M", "a", "n", "a", "g", "e", "r">>
s_Supervisor ==
    <<"S", "u", "p", "e", "r", "v", "i", "s", "o", "r">>
s_ReportingTo ==
    <<"R", "e", "p", "o", "r", "t", "i", "n", "g", " ", "T", "o">>
s_EmployeeID ==
    <<"E", "m", "p", "l", "o", "y", "e", "e", " ", "I", "D">>
s_ID ==
    <<"I", "D">>
s_EmployeeNumber ==
    <<"E", "m", "p", "l", "o", "y", "e", "e", " ", "N", "u", "m", "b", "e", "r">>
s_StaffID ==
    <<"S", "t", "a", "f", "f", " ", "I", "D">>
s_AnnualSalary ==
    <<"A", "n", "n", "u", "a", "l", " ", "S", "a", "l", "a", "r", "y">>
s_Salary ==
    <<"S", "a", "l", "a", "r", "y">>
s_Compensation ==
    <<"C", "o", "m", "p", "e", "n", "s", "a", "t", "i", "o", "n">>
s_Pay ==
    <<"P", "a", "y">>
field_mappings_without_name ==
    << [standard_key |-> s_FullName,
        variations |-> << s_Name, s_FullName, s_EmployeeName, s_PersonName >>],
       [standard_key |-> s_Department,
        variations |-> << s_Department, s_Dept, s_Team, s_Division >>],
       [standard_key |-> s_Company,
        variations |-> << s_Company, s_Organization, s_OrganizationName, s_Employer >>],
       [standard_key |-> s_StartDate,
        variations |-> << s_StartDate, s_JoiningDate, s_HireDate, s_DateJoined >>],
       [standard_key |-> s_JobTitle,
        variations |-> << s_JobTitle, s_Position, s_Role, s_Designation >>],
       [standard_key |-> s_ManagerName,
        variations |-> << s_ManagerName, s_Manager, s_Supervisor, s_ReportingTo >>],
       [standard_key |-> s_EmployeeID,
        variations |-> << s_EmployeeID, s_ID, s_EmployeeNumber, s_StaffID >>],
       [standard_key |-> s_AnnualSalary,
        variations |-> << s_AnnualSalary, s_Salary, s_Compensation, s_Pay >>] >>

field_mappings ==
    << [standard_key |-> s_FullName,
        variations |-> << s_Name, s_FullName, s_EmployeeName, s_PersonName >>],
       [standard_key |-> s_Name,
        variations |-> << s_Name, s_FullName, s_EmployeeName, s_PersonName >>],
       [standard_key |-> s_Department,
        variations |-> << s_Department, s_Dept, s_Team, s_Division >>],
       [standard_key |-> s_Company,
        variations |-> << s_Company, s_Organization, s_OrganizationName, s_Employer >>],
       [standard_key |-> s_StartDate,
        variations |-> << s_StartDate, s_JoiningDate, s_HireDate, s_DateJoined >>],
       [standard_key |-> s_JobTitle,
        variations |-> << s_JobTitle, s_Position, s_Role, s_Designation >>],
       [standard_key |-> s_ManagerName,
        variations |-> << s_ManagerName, s_Manager, s_Supervisor, s_ReportingTo >>],
       [standard_key |-> s_EmployeeID,
        variations |-> << s_EmployeeID, s_ID, s_EmployeeNumber, s_StaffID >>],
       [standard_key |-> s_AnnualSalary,
        variations |-> << s_AnnualSalary, s_Salary, s_Compensation, s_Pay >>] >>

\* f"[{key}]" (main.py:43, 53, 65)
Placeholder(label) ==
    << "[" >> \o label \o << "]" >>

\* main.py:44-45: the exact key's marker, every occurrence
exact_replace_first_only(filled, key, value) ==
    LET ph == Placeholder(key)
        i  == CHOOSE j \in 0..(Len(filled) - Len(ph)) :
                  /\ SubSeq(filled, j + 1, j + Len(ph)) = ph
                  /\ \A k \in 0..(j - 1) : SubSeq(filled, k + 1, k + Len(ph)) # ph
    IN  SubSeq(filled, 1, i) \o PyStr(value)
            \o SubSeq(filled, i + Len(ph) + 1, Len(filled))

exact_replace(filled, key, value) ==
    PyReplace(filled, Placeholder(key), PyStr(value))

\* main.py:52-57: the inner loop over one entry's variations, from index j
RECURSIVE variation_loop_no_break(_, _, _, _)
variation_loop_no_break(filled, variations, value, j) ==
    IF j > Len(variations) THEN [filled_text |-> filled, matched |-> FALSE]
    ELSE LET present == PyIn(Placeholder(variations[j]), filled)
             next == IF present
                     THEN PyReplace(filled, Placeholder(variations[j]), PyStr(value))
                     ELSE filled
             rest == variation_loop_no_break(next, variations, value, j + 1)
         IN  [filled_text |-> rest.filled_text,
              matched |-> present \/ rest.matched]

RECURSIVE variation_loop(_, _, _, _)
variation_loop(filled, variations, value, j) ==
    IF j > Len(variations) THEN [filled_text |-> filled, matched |-> FALSE]
    ELSE IF PyIn(Placeholder(variations[j]), filled)
         THEN [filled_text |->
                   PyReplace(filled, Placeholder(variations[j]), PyStr(value)),
               matched |-> TRUE]
         ELSE variation_loop(filled, variations, value, j + 1)

\* main.py:49-59: the loop over field_mappings.items(), from entry e
RECURSIVE mapping_loop_any_entry(_, _, _, _)
mapping_loop_any_entry(filled, key, value, e) ==
    IF e > Len(field_mappings) THEN [filled_text |-> filled, matched |-> FALSE]
    ELSE LET r == variation_loop(filled, field_mappings[e].variations, value, 1)
         IN  IF r.matched THEN r
             ELSE mapping_loop_any_entry(filled, key, value, e + 1)

RECURSIVE mapping_loop(_, _, _, _)
mapping_loop(filled, key, value, e) ==
    IF e > Len(field_mappings) THEN [filled_text |-> filled, matched |-> FALSE]
    ELSE IF SeqHas(field_mappings[e].variations, key)
         THEN LET r == variation_loop(filled, field_mappings[e].variations, value, 1)
              IN  IF r.matched THEN r
                  ELSE mapping_loop(filled, key, value, e + 1)
         ELSE mapping_loop(filled, key, value, e + 1)

\* main.py:63: [p.strip("[]") for p in template_text.split("[") if "]" in p]
template_placeholders(template) ==
    LET pieces == PySplit(template, "[")
        HasClose(p) == PyIn(<< "]" >>, p)
        kept == SelectSeq(pieces, HasClose)
    IN  [i \in 1..Len(kept) |-> PyStrip(kept[i], {"[", "]"})]

\* main.py:64
partial_qualifies(key, template_placeholder) ==
    \/ PyIn(PyLower(key), PyLower(template_placeholder))
    \/ PyIn(PyLower(template_placeholder), PyLower(key))

\* main.py:63-67: the loop over the template's placeholders, from index j
RECURSIVE partial_loop_bare_label(_, _, _, _, _)
partial_loop_bare_label(filled, candidates, key, value, j) ==
    IF j > Len(candidates) THEN [filled_text |-> filled, matched |-> FALSE]
    ELSE IF partial_qualifies(key, candidates[j]) /\ candidates[j] # << >>
         THEN [filled_text |-> PyReplace(filled, candidates[j], PyStr(value)),
               matched |-> TRUE]
         ELSE partial_loop_bare_label(filled, candidates, key, value, j + 1)

RECURSIVE partial_loop(_, _, _, _, _)
partial_loop(filled, candidates, key, value, j) ==
    IF j > Len(candidates) THEN [filled_text |-> filled, matched |-> FALSE]
    ELSE IF partial_qualifies(key, candidates[j])
         THEN [filled_text |->
                   PyReplace(filled, Placeholder(candidates[j]), PyStr(value)),
               matched |-> TRUE]
         ELSE partial_loop(filled, candidates, key, value, j + 1)

\* main.py:41-67: the body of the loop for one (key, value); path names the
\* branch that ended it.
loop_body_checks_template(template, filled, key, value) ==
    IF PyIn(Placeholder(key), template)
    THEN [filled_text |-> exact_replace(filled, key, value), path |-> "exact"]
    ELSE LET m == mapping_loop(template, key, value, 1)
         IN  IF m.matched
             THEN [filled_text |-> mapping_loop(filled, key, value, 1).filled_text,
                   path |-> "mapping"]
             ELSE LET p == partial_loop(filled, template_placeholders(template),
                                        key, value, 1)
                  IN  [filled_text |-> p.filled_text,
                       path |-> IF p.matched THEN "partial" ELSE "unmatched"]

loop_body(template, filled, key, value) ==
    IF PyIn(Placeholder(key), filled)
    THEN [filled_text |-> exact_replace(filled, key, value), path |-> "exact"]
    ELSE LET m == mapping_loop(filled, key, value, 1)
         IN  IF m.matched
             THEN [filled_text |-> m.filled_text, path |-> "mapping"]
             ELSE LET p == partial_loop(filled, template_placeholders(template),
                                        key, value, 1)
                  IN  [filled_text |-> p.filled_text,
                       path |-> IF p.matched THEN "partial" ELSE "unmatched"]

\* main.py:41: for key, value in data_dict.items(), from item i
RECURSIVE fill_loop(_, _, _, _)
fill_loop(template, filled, data, i) ==
    IF i > Len(data) THEN filled
    ELSE fill_loop(template,
                   loop_body(template, filled, data[i].key, data[i].value).filled_text,
                   data, i + 1)

\* main.py:21-69
fill_template_from_dict(template, data) ==
    fill_loop(template, template, data, 1)

(***************************************************************************)
(* Inputs of the filler: every short text over brackets and one letter     *)
(* with every short dict over keys that differ from the letter by case or  *)
(* length, and the spec's examples over the real field names.              *)
(***************************************************************************)
TextsUpTo(alphabet, n) ==
    UNION { [1..k -> alphabet] : k \in 0..n }

DictsOver(keys, values, n) ==
    { d \in TextsUpTo({ Item(k, v) : k \in keys, v \in values }, n) :
        \A i, j \in 1..Len(d) : i # j => d[i].key # d[j].key }

GenTemplates ==
    TextsUpTo({"[", "]", "a"}, MaxTplLen)

GenKeys ==
    { << "a" >>, << "A" >>, << "a", "a" >> }

GenValues ==
    { StrVal(<< "v" >>), StrVal(<< "[", "A", "]" >>) }

GenDicts ==
    DictsOver(GenKeys, GenValues, MaxKeys)

t_Welcome ==
    <<"D", "e", "a", "r", " ", "[", "F", "u", "l", "l", " ", "N", "a", "m", "e", "]", ",", " ", "w", "e", "l", "c", "o", "m", "e", " ", "t", "o", " ", "[", "C", "o", "m", "p", "a", "n", "y", "]", ".">>

t_Team ==
    <<"T", "e", "a", "m", ":", " ", "[", "D", "e", "p", "a", "r", "t", "m", "e", "n", "t", "]">>

t_HiName ==
    <<"H", "i", " ", "[", "N", "a", "m", "e", "]">>

t_TeamDeptTeam ==
    <<"[", "T", "e", "a", "m", "]", " ", "[", "D", "e", "p", "a", "r", "t", "m", "e", "n", "t", "]", " ", "[", "T", "e", "a", "m", "]">>

t_PersonEmployee ==
    <<"[", "P", "e", "r", "s", "o", "n", " ", "N", "a", "m", "e", "]", ",", " ", "[", "E", "m", "p", "l", "o", "y", "e", "e", " ", "N", "a", "m", "e", "]">>

t_IdTwice ==
    <<"[", "I", "D", "]", " ", "i", "s", " ", "t", "h", "e", " ", "[", "I", "D", "]">>

t_FirstNameThere ==
    <<"H", "i", " ", "[", "F", "i", "r", "s", "t", " ", "N", "a", "m", "e", "]", " ", "t", "h", "e", "r", "e">>

t_FirstName ==
    <<"H", "i", " ", "[", "F", "i", "r", "s", "t", " ", "N", "a", "m", "e", "]">>

t_Braces ==
    <<"H", "e", "l", "l", "o", " ", "{", "{", "N", "a", "m", "e", "}", "}">>

t_Plain ==
    <<"H", "e", "l", "l", "o", " ", "N", "a", "m", "e">>

s_UnknownField ==
    <<"U", "n", "k", "n", "o", "w", "n", " ", "F", "i", "e", "l", "d">>

s_Alice ==
    <<"A", "l", "i", "c", "e">>

s_Acme ==
    <<"A", "c", "m", "e">>

s_Engineering ==
    <<"E", "n", "g", "i", "n", "e", "e", "r", "i", "n", "g">>

s_X ==
    <<"X">>

t_StrayClose ==
    <<"[", "N", "a", "m", "e", "]", "x", "]">>

s_x ==
    <<"x">>

NamedTemplates ==
    { t_Welcome, t_Team, t_HiName, t_TeamDeptTeam, t_PersonEmployee, t_IdTwice,
      t_FirstNameThere, t_FirstName, t_Braces, t_Plain, t_StrayClose }

NamedDicts ==
    { << >>,
      << Item(s_FullName, StrVal(s_Alice)), Item(s_Company, StrVal(s_Acme)) >>,
      << Item(s_Dept, StrVal(s_Engineering)) >>,
      << Item(s_Division, StrVal(s_Engineering)) >>,
      << Item(s_UnknownField, StrVal(s_X)) >>,
      << Item(s_Name, StrVal(s_Alice)) >>,
      << Item(s_EmployeeID, IntVal(70)) >>,
      << Item(s_ID, IntVal(70)) >>,
      << Item(s_x, StrVal(s_X)) >>,
      << Item(s_Name, StrVal(s_Alice)), Item(s_Dept, StrVal(s_Engineering)) >> }

(***************************************************************************)
(* Texts the collaborators return (src/stt.py, src/llm_client.py,          *)
(* src/components/doc_processor.py).                                       *)
(***************************************************************************)
s_error ==
    <<"e", "r", "r", "o", "r">>

s_message ==
    <<"m", "e", "s", "s", "a", "g", "e">>

s_urdu ==
    <<"u", "r", "d", "u">>

s_quota ==
    <<"q", "u", "o", "t", "a">>

s_RESOURCE_EXHAUSTED ==
    <<"R", "E", "S", "O", "U", "R", "C", "E", "_", "E", "X", "H", "A", "U", "S", "T", "E", "D">>

s_API_ERROR ==
    <<"A", "P", "I", "_", "E", "R", "R", "O", "R">>

s_SttUnknownValue ==
    <<"S", "o", "r", "r", "y", ",", " ", "I", " ", "c", "o", "u", "l", "d", " ", "n", "o", "t", " ", "u", "n", "d", "e", "r", "s", "t", "a", "n", "d", " ", "t", "h", "a", "t", ".">>

s_SttRequestError ==
    <<"E", "r", "r", "o", "r", " ", "c", "o", "n", "n", "e", "c", "t", "i", "n", "g", " ", "t", "o", " ", "s", "p", "e", "e", "c", "h", " ", "s", "e", "r", "v", "i", "c", "e", ".">>

s_SttException ==
    <<"A", "n", " ", "e", "r", "r", "o", "r", " ", "o", "c", "c", "u", "r", "r", "e", "d", ".">>

s_Unsupported ==
    <<"U", "n", "s", "u", "p", "p", "o", "r", "t", "e", "d", " ", "f", "i", "l", "e", " ", "t", "y", "p", "e", ".", " ", "P", "l", "e", "a", "s", "e", " ", "u", "p", "l", "o", "a", "d", " ", "a", " ", "P", "D", "F", " ", "o", "r", " ", "D", "O", "C", "X", " ", "f", "i", "l", "e", ".">>

s_QuotaMessage ==
    <<"Y", "o", "u", " ", "h", "a", "v", "e", " ", "r", "e", "a", "c", "h", "e", "d", " ", "y", "o", "u", "r", " ", "f", "r", "e", "e", " ", "A", "P", "I", " ", "q", "u", "o", "t", "a", " ", "f", "o", "r", " ", "t", "o", "d", "a", "y", ".", " ", "P", "l", "e", "a", "s", "e", " ", "w", "a", "i", "t", " ", "a", " ", "w", "h", "i", "l", "e", " ", "o", "r", " ", "u", "p", "g", "r", "a", "d", "e", " ", "y", "o", "u", "r", " ", "p", "l", "a", "n", " ", "t", "o", " ", "c", "o", "n", "t", "i", "n", "u", "e", ".">>

s_QuotaReply ==
    <<"E", "r", "r", "o", "r", ":", " ", "Y", "o", "u", " ", "h", "a", "v", "e", " ", "r", "e", "a", "c", "h", "e", "d", " ", "y", "o", "u", "r", " ", "f", "r", "e", "e", " ", "A", "P", "I", " ", "q", "u", "o", "t", "a", " ", "f", "o", "r", " ", "t", "o", "d", "a", "y", ".", " ", "P", "l", "e", "a", "s", "e", " ", "w", "a", "i", "t", " ", "a", " ", "w", "h", "i", "l", "e", " ", "o", "r", " ", "u", "p", "g", "r", "a", "d", "e", " ", "y", "o", "u", "r", " ", "p", "l", "a", "n", " ", "t", "o", " ", "c", "o", "n", "t", "i", "n", "u", "e", ".">>

s_ApiErrorMessage ==
    <<"A", "n", " ", "A", "P", "I", " ", "e", "r", "r", "o", "r", " ", "o", "c", "c", "u", "r", "r", "e", "d", ":", " ", "5", "0", "3">>

s_IAmAlice ==
    <<"I", " ", "a", "m", " ", "A", "l", "i", "c", "e">>

s_Answer ==
    <<"I", "t", " ", "s", "a", "y", "s", " ", "h", "e", "l", "l", "o">>

(***************************************************************************)
(* st.session_state (main.py:159-172) and the quota tracker                *)
(* (main.py:85-146).                                                       *)
(***************************************************************************)
None ==
    [t |-> "none"]

DAILY_LIMIT ==
    20

\* "api_usage" not in st.session_state
NoUsage ==
    [present |-> FALSE, requests |-> 0, last_reset_date |-> 0]

Usage(requests, last_reset_date) ==
    [present |-> TRUE, requests |-> requests, last_reset_date |-> last_reset_date]

\* main.py:159-172: the keys main() creates on the first run of a session
InitialSessionState ==
    [history            |-> << >>,
     document_text      |-> << >>,
     extracted_info     |-> None,
     filled_text        |-> None,
     doc_buffer         |-> None,
     api_quota_exceeded |-> FALSE,
     audio_error        |-> None,
     api_usage          |-> NoUsage]

\* main.py:71-83
clear_session(ss, day) ==
    [ss EXCEPT !.history = << >>,
               !.document_text = << >>,
               !.extracted_info = None,
               !.filled_text = None,
               !.doc_buffer = None,
               !.api_usage = Usage(0, day)]

\* main.py:89-99 and 122-132: create the record if absent, then reset the
\* counter when the stored date is not today
usage_rolled_over_date_only(ss, day) ==
    LET u0 == IF ss.api_usage.present THEN ss.api_usage ELSE Usage(0, day)
    IN  [u0 EXCEPT !.last_reset_date = day]

usage_rolled_over(ss, day) ==
    LET u0 == IF ss.api_usage.present THEN ss.api_usage ELSE Usage(0, day)
    IN  IF u0.last_reset_date # day THEN Usage(0, day) ELSE u0

\* main.py:101-105: the comparison against the daily limit
limit_reached_off_by_one(requests) ==
    requests > DAILY_LIMIT

limit_reached(requests) ==
    requests >= DAILY_LIMIT

\* main.py:85-105: the returned bool and the session state it leaves
check_daily_quota(ss, day) ==
    LET u == usage_rolled_over(ss, day)
    IN  [ok |-> ~limit_reached(u.requests),
         ss |-> [ss EXCEPT !.api_usage = u]]

\* main.py:107-116
increment_api_usage_first_lost(ss, day) ==
    IF ss.api_usage.present
    THEN [ss EXCEPT !.api_usage.requests = ss.api_usage.requests + 1]
    ELSE [ss EXCEPT !.api_usage = Usage(0, day)]

increment_api_usage(ss, day) ==
    LET u0 == IF ss.api_usage.present THEN ss.api_usage ELSE Usage(0, day)
    IN  [ss EXCEPT !.api_usage = [u0 EXCEPT !.requests = u0.requests + 1]]

\* main.py:118-138
get_remaining_quota(ss, day) ==
    LET u == usage_rolled_over(ss, day)
    IN  [info |-> [remaining_requests |-> DAILY_LIMIT - u.requests,
                   total_requests     |-> DAILY_LIMIT,
                   used_requests      |-> u.requests],
         ss   |-> [ss EXCEPT !.api_usage = u]]

\* main.py:140-146
reset_quota_for_testing(ss, day) ==
    [ss EXCEPT !.api_usage = Usage(0, day)]

\* main.py:530 and 563: st.session_state.api_usage["requests"] -= 1
rollback_to_zero(ss) ==
    [ss EXCEPT !.api_usage.requests = 0]

rollback_twice(ss) ==
    [ss EXCEPT !.api_usage.requests = ss.api_usage.requests - 2]

rollback(ss) ==
    [ss EXCEPT !.api_usage.requests = ss.api_usage.requests - 1]

(***************************************************************************)
(* The collaborators, as functions of what the outside world does.         *)
(***************************************************************************)
\* stt.py:29-32: "ur" when an Urdu word is in the text (only the ASCII word
\* of the list can occur over this alphabet)
detect_language(transcript) ==
    IF PyIn(s_urdu, PyLower(transcript)) THEN "ur" ELSE "en"

\* stt.py:13-42: STTHandler.transcribe, by what the recognizer does
transcribe(heard) ==
    CASE heard.kind = "text"          -> [text |-> heard.text,
                                          lang |-> detect_language(heard.text)]
      [] heard.kind = "unknown_value" -> [text |-> s_SttUnknownValue, lang |-> "en"]
      [] heard.kind = "request_error" -> [text |-> s_SttRequestError, lang |-> "en"]
      [] heard.kind = "exception"     -> [text |-> s_SttException, lang |-> "en"]

\* doc_processor.py:9-25: DocumentProcessor.extract_text
extract_text(uploaded_file) ==
    CASE uploaded_file.kind \in { "pdf", "docx" } -> uploaded_file.text
      [] uploaded_file.kind = "other"            -> s_Unsupported
      [] uploaded_file.kind = "unreadable"       -> << >>

Raised ==
    [t |-> "raised"]

DictVal(d) ==
    [t |-> "dict", v |-> d]

\* llm_client.py:34-77: LLMClient.extract_info, by what the model call does
extract_info(reply) ==
    CASE reply.kind = "json_object" -> DictVal(reply.fields)
      [] reply.kind = "json_array"  -> [t |-> "list"]
      [] reply.kind = "bad_json"    -> DictVal(<< >>)
      [] reply.kind = "quota_error" ->
             DictVal(<< Item(s_error, StrVal(s_RESOURCE_EXHAUSTED)),
                        Item(s_message, StrVal(s_QuotaMessage)) >>)
      [] reply.kind = "api_error"   ->
             DictVal(<< Item(s_error, StrVal(s_API_ERROR)),
                        Item(s_message, StrVal(s_ApiErrorMessage)) >>)
      [] reply.kind = "exception"   -> Raised

\* llm_client.py:22-32: LLMClient.get_response
get_response(reply) ==
    CASE reply.kind = "content"     -> StrVal(reply.text)
      [] reply.kind = "quota_error" -> StrVal(s_QuotaReply)
      [] reply.kind = "api_error"   -> StrVal(s_ApiErrorMessage)
      [] reply.kind = "exception"   -> Raised

\* doc_generator.py:8-23: DocumentGenerator.create_docx
create_docx(content, title, writer) ==
    IF writer = "ok" THEN [t |-> "docx", title |-> title, content |-> content]
    ELSE Raised

(***************************************************************************)
(* One script run of main() (main.py:150-565).  A run reads the widgets    *)
(* (button pressed, uploaded file, recorded audio) and the collaborators'  *)
(* behaviour, and leaves a new session state.  `seen` records what the run *)
(* did.                                                                    *)
(***************************************************************************)
NoTurn ==
    [kind |-> "none", gate |-> "none", called |-> "none", result |-> "none",
     requests_at_gate |-> 0, fill_input |-> None, rolled_back |-> FALSE,
     stt |-> "none"]

Requests(ss) ==
    ss.api_usage.requests

\* main.py:404-414 (Stats), 438-440 (upload), 461-463 (audio error shown once)
before_audio(ss, day, button, uploaded_file) ==
    LET s1 == IF button = "stats" THEN get_remaining_quota(ss, day).ss ELSE ss
        s2 == IF uploaded_file.kind # "none"
              THEN [s1 EXCEPT !.document_text = extract_text(uploaded_file)]
              ELSE s1
    IN  [s2 EXCEPT !.audio_error = None]

\* main.py:480
transcription_failed(user_text) ==
    PyIn(s_error, PyLower(user_text))

\* main.py:484
with_user_message(ss, heard) ==
    [ss EXCEPT !.history =
        Append(ss.history, [role |-> "user", text |-> heard.text, lang |-> heard.lang])]

\* main.py:492-497 and 535-540: the gate in front of either collaborator
quota_gate_ignored(ss, day) ==
    LET c == check_daily_quota(ss, day)
    IN  [ok |-> c.ok, proceed |-> TRUE, ss |-> c.ss]

quota_gate(ss, day) ==
    LET c == check_daily_quota(ss, day)
    IN  [ok      |-> c.ok,
         proceed |-> c.ok,
         ss      |-> IF c.ok THEN c.ss
                     ELSE [c.ss EXCEPT !.api_quota_exceeded = TRUE]]

\* main.py:508: extracted_info.get("error") == "RESOURCE_EXHAUSTED"
is_quota_error(d) ==
    DictHas(d, s_error) /\ DictGet(d, s_error) = StrVal(s_RESOURCE_EXHAUSTED)

ResultKind(d) ==
    IF d = << >> THEN "empty"
    ELSE IF ~DictHas(d, s_error) THEN "fields"
    ELSE IF DictGet(d, s_error) = StrVal(s_RESOURCE_EXHAUSTED) THEN "RESOURCE_EXHAUSTED"
    ELSE IF DictGet(d, s_error) = StrVal(s_API_ERROR) THEN "API_ERROR"
    ELSE "other_error"

\* main.py:499-532: the template branch after the gate let the run through
template_branch(ss, day, reply, writer) ==
    LET s0 == increment_api_usage(ss, day)
        r  == extract_info(reply)
        base == [NoTurn EXCEPT !.kind = "template", !.gate = "open",
                               !.called = "extract_info",
                               !.requests_at_gate = Requests(ss)]
    IN  IF r.t = "raised"
        THEN [ss |-> rollback(s0),
              seen |-> [base EXCEPT !.result = "raised", !.rolled_back = TRUE]]
        ELSE IF r.t = "list"          \* .get on a list raises at main.py:508
        THEN [ss |-> rollback(s0),
              seen |-> [base EXCEPT !.result = "not_a_dict", !.rolled_back = TRUE]]
        ELSE IF is_quota_error(r.v)
        THEN [ss |-> [s0 EXCEPT !.api_quota_exceeded = TRUE],
              seen |-> [base EXCEPT !.result = "RESOURCE_EXHAUSTED"]]
        ELSE IF r.v # << >>
        THEN LET filled == fill_template_from_dict(s0.document_text, r.v)
                 s1 == [s0 EXCEPT !.extracted_info = r,
                                  !.filled_text = StrVal(filled)]
                 buffer == create_docx(filled, "Filled Document", writer)
                 took == [base EXCEPT !.result = ResultKind(r.v), !.fill_input = r]
             IN  IF buffer.t = "raised"
                 THEN [ss |-> rollback(s1),
                       seen |-> [took EXCEPT !.rolled_back = TRUE]]
                 ELSE [ss |-> [s1 EXCEPT !.doc_buffer = buffer], seen |-> took]
        ELSE [ss |-> s0, seen |-> [base EXCEPT !.result = "empty"]]

\* main.py:549
reply_signals_quota(ai_response) ==
    \/ PyIn(s_RESOURCE_EXHAUSTED, ai_response)
    \/ PyIn(s_quota, PyLower(ai_response))

\* main.py:542-565: the question branch after the gate let the run through
question_branch(ss, day, reply) ==
    LET s0 == increment_api_usage(ss, day)
        r  == get_response(reply)
        base == [NoTurn EXCEPT !.kind = "question", !.gate = "open",
                               !.called = "get_response",
                               !.requests_at_gate = Requests(ss)]
    IN  IF r.t = "raised"
        THEN [ss |-> rollback(s0),
              seen |-> [base EXCEPT !.result = "raised", !.rolled_back = TRUE]]
        ELSE IF reply_signals_quota(r.v)
        THEN [ss |-> [s0 EXCEPT !.api_quota_exceeded = TRUE],
              seen |-> [base EXCEPT !.result = "quota_reply"]]
        ELSE [ss |-> s0,
              seen |-> [base EXCEPT !.result =
                            IF reply.kind = "api_error" THEN "api_error_reply"
                            ELSE "answer"]]

\* main.py:471-565: the run from the recorded audio on
audio_turn(ss, day, recording, extract_reply, answer_reply, writer) ==
    LET heard == transcribe(recording)
    IN  IF transcription_failed(heard.text)
        THEN [ss |-> [ss EXCEPT !.audio_error =
                         [t |-> "msg", v |-> "Transcription failed. Please try again."]],
              seen |-> [NoTurn EXCEPT !.kind = "transcription_failed",
                                      !.requests_at_gate = Requests(ss)]]
        ELSE LET s1 == with_user_message(ss, heard)
                 branch == IF is_template(s1.document_text) THEN "template"
                           ELSE "question"
                 g == quota_gate(s1, day)
             IN  IF ~g.proceed
                 THEN [ss |-> g.ss,
                       seen |-> [NoTurn EXCEPT !.kind = branch, !.gate = "closed",
                                               !.requests_at_gate = Requests(g.ss)]]
                 ELSE LET done == IF branch = "template"
                                  THEN template_branch(g.ss, day, extract_reply, writer)
                                  ELSE question_branch(g.ss, day, answer_reply)
                      IN  [done EXCEPT !.seen.gate =
                               IF g.ok THEN "open" ELSE "closed"]

FillIdle ==
    /\ template_text = << >>
    /\ data_dict = << >>
    /\ filled_text = << >>
    /\ pos = 0
    /\ prev_text = << >>
    /\ path = "start"
    /\ pc = "idle"

DetectIdle ==
    /\ text = << >>
    /\ detected = "idle"

\* what a call of a quota function left to see: its name, the bool or
\* snapshot it returned, and the usage record it started from
NoOp ==
    [kind |-> "none", ok |-> TRUE, info |-> None, before |-> None]

QuotaIdle ==
    /\ quota_state = InitialSessionState
    /\ quota_day = 0
    /\ increments = 0
    /\ day_changed = FALSE
    /\ quota_op = NoOp


(***************************************************************************)
(* Spec: a session of the application.  Every step is one script run of    *)
(* main() on some widget input, or midnight passing.                       *)
(***************************************************************************)
Uploads ==
    { [kind |-> "none"],
      [kind |-> "docx", text |-> t_HiName],
      [kind |-> "pdf", text |-> t_Plain],
      [kind |-> "other"] }

Recordings ==
    { [kind |-> "text", text |-> s_IAmAlice],
      [kind |-> "unknown_value"],
      [kind |-> "request_error"],
      [kind |-> "exception"] }

ExtractReplies ==
    { [kind |-> "json_object", fields |-> << Item(s_Name, StrVal(s_Alice)) >>],
      [kind |-> "json_array"],
      [kind |-> "bad_json"],
      [kind |-> "quota_error"],
      [kind |-> "api_error"],
      [kind |-> "exception"] }

AnswerReplies ==
    { [kind |-> "content", text |-> s_Answer],
      [kind |-> "quota_error"],
      [kind |-> "api_error"],
      [kind |-> "exception"] }

Writers ==
    { "ok", "raises" }

\* The session after n answered questions about an uploaded document: n
\* runs of QuestionTurnRun below from a fresh session with t_Plain uploaded
\* leave n user messages and n counted requests.
AfterQuestions(n) ==
    [InitialSessionState EXCEPT
        !.document_text = t_Plain,
        !.history = [i \in 1..n |->
                        [role |-> "user", text |-> s_IAmAlice, lang |-> "en"]],
        !.api_usage = Usage(n, 0)]

LateSessionState ==
    AfterQuestions(LateTurns)

\* A session starts fresh (main.py:159-172); the model also starts from the
\* session LateTurns answered questions later, so that the daily limit is
\* within MaxTurns further turns.
AppInit ==
    /\ \/ session_state = InitialSessionState /\ calls = 0
       \/ session_state = LateSessionState /\ calls = LateTurns
    /\ today = 0
    /\ turn = NoTurn
    /\ raises = 0
    /\ turns = 0

AppIdle ==
    /\ session_state = InitialSessionState
    /\ today = 0
    /\ turn = NoTurn
    /\ calls = 0
    /\ raises = 0
    /\ turns = 0

\* main.py:398-401: New Session pressed; st.rerun() ends the run
NewSessionRun ==
    /\ session_state' =
           [clear_session(session_state, today) EXCEPT !.api_quota_exceeded = FALSE]
    /\ turn' = NoTurn
    /\ calls' = 0
    /\ raises' = 0
    /\ UNCHANGED << today, turns >>
    /\ UNCHANGED << fillVars, detectVars, quotaVars >>

\* main.py:416-418: Reset Quota (Debug) pressed; st.rerun() ends the run
DebugResetRun ==
    /\ session_state' = reset_quota_for_testing(session_state, today)
    /\ turn' = NoTurn
    /\ calls' = 0
    /\ raises' = 0
    /\ UNCHANGED << today, turns >>
    /\ UNCHANGED << fillVars, detectVars, quotaVars >>

\* main.py:404-449 with no audio recorded (main.py:471): Stats pressed or
\* not, a file in the uploader or not
IdleRun ==
    /\ \E button \in { "none", "stats" }, uploaded_file \in Uploads :
           session_state' = before_audio(session_state, today, button, uploaded_file)
    /\ turn' = NoTurn
    /\ UNCHANGED << today, calls, raises, turns >>
    /\ UNCHANGED << fillVars, detectVars, quotaVars >>

\* A run with recorded audio that ends as `kind` with the gate as `gate`.
\* A file that stays in the uploader is read again to the text the session
\* already holds, and Stats only brings the date forward as the gate does,
\* so these runs take no button and no new file: IdleRun followed by one of
\* them leaves the session as the combined run does.
Run(recording, extract_reply, answer_reply, writer, kind, gate) ==
    /\ turns < MaxTurns
    /\ \E r \in { audio_turn(before_audio(session_state, today, "none", [kind |-> "none"]),
                              today, recording, extract_reply, answer_reply, writer) } :
           /\ r.seen.kind = kind
           /\ r.seen.gate = gate
           /\ session_state' = r.ss
           /\ turn' = [r.seen EXCEPT !.stt = recording.kind]
           /\ calls' = IF r.seen.called # "none" THEN calls + 1 ELSE calls
           /\ raises' = IF r.seen.rolled_back THEN raises + 1 ELSE raises
    /\ turns' = turns + 1
    /\ UNCHANGED today
    /\ UNCHANGED << fillVars, detectVars, quotaVars >>

NoReply ==
    [kind |-> "exception"]

\* main.py:480-482
TranscriptionFailedRun ==
    \E recording \in Recordings :
        Run(recording, NoReply, NoReply, "ok", "transcription_failed", "none")

\* main.py:492-497 and 535-540
QuotaBlockedRun ==
    \E recording \in Recordings, kind \in { "template", "question" } :
        Run(recording, NoReply, NoReply, "ok", kind, "closed")

\* main.py:489-532
TemplateTurnRun ==
    \E recording \in Recordings, reply \in ExtractReplies, writer \in Writers :
        /\ (writer = "raises" => reply.kind \in { "json_object", "api_error" })
        /\ Run(recording, reply, NoReply, writer, "template", "open")

\* main.py:533-565
QuestionTurnRun ==
    \E recording \in Recordings, reply \in AnswerReplies :
        Run(recording, NoReply, reply, "ok", "question", "open")

\* datetime.now().date() moves to the next day
DayPasses ==
    /\ today < MaxDay
    /\ today' = today + 1
    /\ calls' = 0
    /\ raises' = 0
    /\ UNCHANGED << session_state, turn, turns >>
    /\ UNCHANGED << fillVars, detectVars, quotaVars >>

Next ==
    \/ NewSessionRun
    \/ DebugResetRun
    \/ IdleRun
    \/ TranscriptionFailedRun
    \/ QuotaBlockedRun
    \/ TemplateTurnRun
    \/ QuestionTurnRun
    \/ DayPasses

Init ==
    AppInit /\ FillIdle /\ DetectIdle /\ QuotaIdle

Spec ==
    Init /\ [][Next]_vars

(***************************************************************************)
(* FillSpec: fill_template_from_dict run on bounded inputs, one key of the *)
(* dict per step.                                                          *)
(***************************************************************************)
FillInputs ==
    (GenTemplates \X GenDicts) \cup (NamedTemplates \X NamedDicts)

FillInit ==
    /\ \E in \in FillInputs :
           /\ template_text = in[1]
           /\ data_dict = in[2]
           /\ filled_text = in[1]          \* main.py:23
           /\ prev_text = in[1]
    /\ pos = 0
    /\ path = "start"
    /\ pc = "loop"
    /\ AppIdle
    /\ DetectIdle
    /\ QuotaIdle

\* One iteration of the loop of main.py:41 that ends in the given branch.
FillStep(branch) ==
    /\ pc = "loop"
    /\ pos < Len(data_dict)
    /\ LET item == data_dict[pos + 1]
           r == loop_body(template_text, filled_text, item.key, item.value)
       IN  /\ r.path = branch
           /\ filled_text' = r.filled_text
           /\ path' = r.path
    /\ prev_text' = filled_text
    /\ pos' = pos + 1
    /\ UNCHANGED << template_text, data_dict, pc >>
    /\ UNCHANGED << appVars, detectVars, quotaVars >>

ExactStep ==
    FillStep("exact")

MappingStep ==
    FillStep("mapping")

PartialStep ==
    FillStep("partial")

UnmatchedStep ==
    FillStep("unmatched")

\* main.py:69
FillReturn ==
    /\ pc = "loop"
    /\ pos = Len(data_dict)
    /\ pc' = "returned"
    /\ UNCHANGED << template_text, data_dict, filled_text, pos, prev_text, path >>
    /\ UNCHANGED << appVars, detectVars, quotaVars >>

FillNext ==
    \/ ExactStep
    \/ MappingStep
    \/ PartialStep
    \/ UnmatchedStep
    \/ FillReturn

FillSpec ==
    FillInit /\ [][FillNext]_vars

(***************************************************************************)
(* DetectSpec: is_template on every short text over the bracket and brace  *)
(* characters and one letter.                                              *)
(***************************************************************************)
DetectTexts ==
    TextsUpTo({"[", "]", "{", "}", "a"}, MaxTextLen)

DetectInit ==
    /\ text \in DetectTexts
    /\ detected = "unknown"
    /\ AppIdle
    /\ FillIdle
    /\ QuotaIdle

Detect ==
    /\ detected = "unknown"
    /\ detected' = IF is_template(text) THEN "yes" ELSE "no"
    /\ UNCHANGED << text, appVars, fillVars, quotaVars >>

DetectNext ==
    Detect

DetectSpec ==
    DetectInit /\ [][DetectNext]_vars

\* The stepwise run returns what the function computes.
FillStepsAgree ==
    pc = "returned" => filled_text = fill_template_from_dict(template_text, data_dict)
(***************************************************************************)
(* QuotaSpec: the quota functions of main.py:71-146 called one at a time,  *)
(* in any order, on one session.                                           *)
(***************************************************************************)
QuotaInit ==
    /\ QuotaIdle
    /\ AppIdle
    /\ FillIdle
    /\ DetectIdle

\* the usage record a quota function starts from; every one of them reads
\* a missing record as { requests: 0, last_reset_date: today }
\* (main.py:89-93, 109-113, 122-126)
UsageSeen(ss, day) ==
    IF ss.api_usage.present THEN ss.api_usage ELSE Usage(0, day)

\* main.py:107-116
QuotaIncrement ==
    /\ increments < MaxIncrements
    /\ quota_state' = increment_api_usage(quota_state, quota_day)
    /\ increments' = increments + 1
    /\ quota_op' = [NoOp EXCEPT !.kind = "increment",
                                !.before = UsageSeen(quota_state, quota_day)]
    /\ UNCHANGED << quota_day, day_changed >>
    /\ UNCHANGED << appVars, fillVars, detectVars >>

\* main.py:85-105
QuotaCheck ==
    /\ \E c \in { check_daily_quota(quota_state, quota_day) } :
           /\ quota_state' = c.ss
           /\ quota_op' = [NoOp EXCEPT !.kind = "check", !.ok = c.ok,
                                       !.before = UsageSeen(quota_state, quota_day)]
    /\ UNCHANGED << quota_day, increments, day_changed >>
    /\ UNCHANGED << appVars, fillVars, detectVars >>

\* main.py:118-138
QuotaRemaining ==
    /\ \E r \in { get_remaining_quota(quota_state, quota_day) } :
           /\ quota_state' = r.ss
           /\ quota_op' = [NoOp EXCEPT !.kind = "remaining", !.info = r.info,
                                       !.before = UsageSeen(quota_state, quota_day)]
    /\ UNCHANGED << quota_day, increments, day_changed >>
    /\ UNCHANGED << appVars, fillVars, detectVars >>

\* main.py:530 and 563: the except handler's decrement, which main runs
\* only after the increment of the same run
QuotaRollback ==
    /\ quota_op.kind = "increment"
    /\ quota_state' = rollback(quota_state)
    /\ increments' = increments - 1
    /\ quota_op' = [quota_op EXCEPT !.kind = "rollback"]
    /\ UNCHANGED << quota_day, day_changed >>
    /\ UNCHANGED << appVars, fillVars, detectVars >>

\* main.py:140-146
QuotaReset ==
    /\ quota_state' = reset_quota_for_testing(quota_state, quota_day)
    /\ increments' = 0
    /\ day_changed' = FALSE
    /\ quota_op' = [NoOp EXCEPT !.kind = "reset"]
    /\ UNCHANGED quota_day
    /\ UNCHANGED << appVars, fillVars, detectVars >>

\* main.py:71-83
QuotaClear ==
    /\ quota_state' = clear_session(quota_state, quota_day)
    /\ increments' = 0
    /\ day_changed' = FALSE
    /\ quota_op' = [NoOp EXCEPT !.kind = "clear"]
    /\ UNCHANGED quota_day
    /\ UNCHANGED << appVars, fillVars, detectVars >>

\* datetime.now().date() moves to the next day
QuotaDayPasses ==
    /\ quota_day < MaxDay
    /\ quota_day' = quota_day + 1
    /\ day_changed' = TRUE
    /\ quota_op' = [NoOp EXCEPT !.kind = "day"]
    /\ UNCHANGED << quota_state, increments >>
    /\ UNCHANGED << appVars, fillVars, detectVars >>

QuotaNext ==
    \/ QuotaIncrement
    \/ QuotaCheck
    \/ QuotaRemaining
    \/ QuotaRollback
    \/ QuotaReset
    \/ QuotaClear
    \/ QuotaDayPasses

QuotaSpec ==
    QuotaInit /\ [][QuotaNext]_vars


(***************************************************************************)
(* Vocabulary of the claims about the filler.  These restate the claims'   *)
(* words independently of the loops above.                                 *)
(***************************************************************************)
\* the item the last step processed
LastItem ==
    data_dict[pos]

HasBracket(s) ==
    \E i \in 1..Len(s) : s[i] \in {"[", "]"}

\* start offsets at which marker m occurs in s
Occurrences(s, m) ==
    { i \in 0..(Len(s) - Len(m)) : SubSeq(s, i + 1, i + Len(m)) = m }

\* the synonym lists of the table that hold key (case-sensitive membership)
ListsHolding(key) ==
    { e \in 1..Len(field_mappings) : SeqHas(field_mappings[e].variations, key) }

\* indexes of the synonyms of list e whose bracket form is in s
PresentSynonyms(e, s) ==
    { j \in 1..Len(field_mappings[e].variations) :
        PyIn(Placeholder(field_mappings[e].variations[j]), s) }

Min(S) ==
    CHOOSE x \in S : \A y \in S : x <= y

\* The placeholder markers of a text in scan order: for every "[" that is
\* closed by a "]" with no bracket in between, the label between them.
MarkerStarts(s) ==
    { i \in 1..Len(s) :
        /\ s[i] = "["
        /\ \E j \in (i + 1)..Len(s) :
               /\ s[j] = "]"
               /\ \A k \in (i + 1)..(j - 1) : s[k] \notin {"[", "]"} }

LabelAt(s, i) ==
    LET j == Min({ k \in (i + 1)..Len(s) : s[k] = "]" })
    IN  SubSeq(s, i + 1, j - 1)

\* key and label are related as tier 3 asks: one contains the other, case ignored
Related(key, label) ==
    \/ PyIn(PyLower(key), PyLower(label))
    \/ PyIn(PyLower(label), PyLower(key))

QualifyingStarts(s, key) ==
    { i \in MarkerStarts(s) : LabelAt(s, i) # << >> /\ Related(key, LabelAt(s, i)) }

\* every label L such that "[" L "]" is a substring of s and L holds no "["
DelimitedLabels(s) ==
    { SubSeq(s, p[1] + 1, p[2] - 1) :
        p \in { q \in (1..Len(s)) \X (1..Len(s)) :
                   q[1] < q[2] /\ s[q[1]] = "[" /\ s[q[2]] = "]" } }

OpenFree(s) ==
    \A i \in 1..Len(s) : s[i] # "["

\* no tier of the claim matches key against text s
MatchesNothing(key, s) ==
    /\ ~PyIn(Placeholder(key), s)
    /\ \A e \in ListsHolding(key) : PresentSynonyms(e, s) = {}
    /\ \A L \in DelimitedLabels(s) : OpenFree(L) => ~Related(key, L)

\* a text whose every bracket belongs to a marker "[" label "]", labels
\* bracket-free
RECURSIVE WellFormed(_)
WellFormed(s) ==
    IF s = << >> THEN TRUE
    ELSE IF s[1] = "]" THEN FALSE
    ELSE IF s[1] # "[" THEN WellFormed(Tail(s))
    ELSE /\ 1 \in MarkerStarts(s)
         /\ WellFormed(SubSeq(s, Len(LabelAt(s, 1)) + 3, Len(s)))

\* one left-to-right pass that replaces each marker by its key's value
RECURSIVE Substituted(_, _)
Substituted(s, data) ==
    IF s = << >> THEN << >>
    ELSE IF s[1] = "[" /\ 1 \in MarkerStarts(s) /\ DictHas(data, LabelAt(s, 1))
         THEN PyStr(DictGet(data, LabelAt(s, 1)))
                  \o Substituted(SubSeq(s, Len(LabelAt(s, 1)) + 3, Len(s)), data)
         ELSE << s[1] >> \o Substituted(Tail(s), data)

MarkersAreKeys(s, data) ==
    /\ WellFormed(s)
    /\ { LabelAt(s, i) : i \in MarkerStarts(s) } = { data[i].key : i \in 1..Len(data) }
    /\ \A i \in 1..Len(data) : ~HasBracket(PyStr(data[i].value))

(***************************************************************************)
(* C6: a key whose marker "[key]" is in the working text when the key is   *)
(* processed has ALL occurrences of that marker replaced by str(value),    *)
(* and gets no synonym or fuzzy substitution; a template whose markers are *)
(* exactly the dict's keys comes out with every marker replaced by its     *)
(* key's value.                                                            *)
(***************************************************************************)
C6_ExactMarkerAllReplaced ==
    /\ (pos > 0 /\ PyIn(Placeholder(LastItem.key), prev_text)) =>
          LET m == Placeholder(LastItem.key)
              v == PyStr(LastItem.value)
          IN  /\ path = "exact"
              /\ filled_text = PyReplace(prev_text, m, v)
              /\ (~HasBracket(LastItem.key) /\ ~HasBracket(v)) =>
                    Len(filled_text) =
                           Len(prev_text)
                             - Cardinality(Occurrences(prev_text, m)) * (Len(m) - Len(v))
    /\ (pc = "returned" /\ MarkersAreKeys(template_text, data_dict)) =>
          /\ filled_text = Substituted(template_text, data_dict)
          /\ ~HasBracket(filled_text)

C6_Witness ==
    /\ pos > 0
    /\ path = "exact"
    /\ Cardinality(Occurrences(prev_text, Placeholder(LastItem.key))) >= 2
    /\ filled_text # prev_text

C6_WitnessAllKeys ==
    /\ pc = "returned"
    /\ Len(data_dict) = 2
    /\ MarkersAreKeys(template_text, data_dict)

(***************************************************************************)
(* C7: a key whose own marker is absent from the working text but which is *)
(* in a synonym list has the marker of the first synonym of that list, in  *)
(* declared order, that is present in the working text replaced, and no    *)
(* marker of another synonym; with no synonym's marker present, tier 2     *)
(* substitutes nothing.                                                    *)
(***************************************************************************)
C7_FirstPresentSynonym ==
    (pos > 0 /\ ~PyIn(Placeholder(LastItem.key), prev_text)) =>
        \A e \in ListsHolding(LastItem.key) :
            LET list == field_mappings[e].variations
                present == PresentSynonyms(e, prev_text)
            IN  IF present # {}
                THEN /\ path = "mapping"
                     /\ filled_text =
                            PyReplace(prev_text, Placeholder(list[Min(present)]),
                                      PyStr(LastItem.value))
                     /\ \A j \in present \ { Min(present) } :
                            Cardinality(Occurrences(filled_text, Placeholder(list[j])))
                              = Cardinality(Occurrences(prev_text, Placeholder(list[j])))
                ELSE /\ path \in { "partial", "unmatched" }
                     /\ path = "unmatched" => filled_text = prev_text

C7_Witness ==
    /\ pos > 0
    /\ path = "mapping"
    /\ ~PyIn(Placeholder(LastItem.key), prev_text)
    /\ \E e \in ListsHolding(LastItem.key) :
           /\ Cardinality(PresentSynonyms(e, prev_text)) >= 2
           /\ field_mappings[e].variations[Min(PresentSynonyms(e, prev_text))]
                  # LastItem.key

C7_WitnessNoSynonym ==
    /\ pos > 0
    /\ path = "unmatched"
    /\ ListsHolding(LastItem.key) # {}
    /\ HasBracket(prev_text)

(***************************************************************************)
(* C8: when neither the exact tier nor the synonym tier matched a key and  *)
(* the template has a marker [L] with L related to the key, the bracket    *)
(* form of the first such label in scan order is replaced by the value,    *)
(* wherever the marker stands in the template.                             *)
(***************************************************************************)
C8_FirstRelatedMarkerReplaced ==
    (/\ pos = 1
     /\ ~PyIn(Placeholder(LastItem.key), prev_text)
     /\ \A e \in ListsHolding(LastItem.key) : PresentSynonyms(e, prev_text) = {}
     /\ QualifyingStarts(template_text, LastItem.key) # {}) =>
        filled_text =
            PyReplace(prev_text,
                      Placeholder(LabelAt(template_text,
                                          Min(QualifyingStarts(template_text,
                                                               LastItem.key)))),
                      PyStr(LastItem.value))

(***************************************************************************)
(* C9: the template comes back unchanged when no key of the dict matches   *)
(* by any tier, in particular for the empty dict.                          *)
(***************************************************************************)
C9_UnmatchedLeavesTemplate ==
    (/\ pc = "returned"
     /\ \A i \in 1..Len(data_dict) : MatchesNothing(data_dict[i].key, template_text)) =>
        filled_text = template_text

C9_Witness ==
    /\ pc = "returned"
    /\ Len(data_dict) >= 1
    /\ MarkerStarts(template_text) # {}
    /\ \A i \in 1..Len(data_dict) : MatchesNothing(data_dict[i].key, template_text)

C9_WitnessEmptyDict ==
    /\ pc = "returned"
    /\ data_dict = << >>
    /\ is_template(template_text)

(***************************************************************************)
(* C10: is_template is true exactly for a text that holds a "[" and a "]"  *)
(* anywhere, or a "{{" and a "}}"; false for the empty text and for a text *)
(* without bracket characters.                                             *)
(***************************************************************************)
C10_IsTemplateIff ==
    detected # "unknown" =>
        /\ detected = "yes" <=>
              \/ /\ \E i \in 1..Len(text) : text[i] = "["
                 /\ \E j \in 1..Len(text) : text[j] = "]"
              \/ /\ \E i \in 1..(Len(text) - 1) : text[i] = "{" /\ text[i + 1] = "{"
                 /\ \E j \in 1..(Len(text) - 1) : text[j] = "}" /\ text[j + 1] = "}"
        /\ detected \in { "yes", "no" }
        /\ text = << >> => detected = "no"
        /\ (\A i \in 1..Len(text) : text[i] = "a") => detected = "no"

C10_Witness ==
    /\ detected = "yes"
    /\ \E i, j \in 1..Len(text) : i < j /\ text[i] = "]" /\ text[j] = "["

C10_WitnessBraces ==
    /\ detected = "yes"
    /\ \A i \in 1..Len(text) : text[i] \notin { "[", "]" }
(***************************************************************************)
(* The quota gate and the collaborator calls of a script run.              *)
(***************************************************************************)
AudioRun ==
    turns' # turns

\* C1: in every run with recorded audio, extract_info or get_response is
\* called only when check_daily_quota returned True in that run; when it
\* returned False the run makes no collaborator call, leaves the request
\* counter as it was and sets api_quota_exceeded.
C1_CollaboratorOnlyBehindOpenGate ==
    [][AudioRun =>
          /\ (turn'.called # "none" => turn'.gate = "open")
          /\ (turn'.gate = "closed" =>
                 /\ turn'.called = "none"
                 /\ calls' = calls
                 /\ session_state.api_usage.present
                 /\ Requests(session_state') = Requests(session_state)
                 /\ session_state'.api_quota_exceeded)]_vars

C1_Witness ==
    /\ turn.kind \in { "template", "question" }
    /\ turn.gate = "closed"
    /\ turn.called = "none"
    /\ session_state.api_quota_exceeded

\* C2 as stated: within one session and one day, with no New Session, debug
\* reset or date change in between, the collaborator calls made (returned,
\* returned an error value, or raised) never exceed the daily limit of 20.
C2_CallsNeverExceedLimit ==
    calls <= DAILY_LIMIT

\* C2 as amended: within one session and one day, with no New Session, debug
\* reset or date change in between, the collaborator calls made in runs that
\* did not end in the except handler (main.py:528-532, 561-565) never exceed
\* the daily limit of 20.
C2_CountedCallsNeverExceedLimit ==
    calls - raises <= DAILY_LIMIT

C2_Witness ==
    /\ calls - raises = DAILY_LIMIT
    /\ turn.called # "none"
    /\ turn.gate = "open"

\* C4: when a collaborator call fails for a reason other than quota
\* exhaustion, in either branch, the request counter at the end of the run
\* equals its value before the increment.
C4_FailedCallRolledBack ==
    turn.result \in { "raised", "API_ERROR", "api_error_reply" }
        => Requests(session_state) = turn.requests_at_gate

\* C5: in the template branch a result of extract_info that holds an
\* "error" key is never passed to fill_template_from_dict and never stored
\* as extracted_info.
C5_ErrorResultNeverUsedAsData ==
    /\ (turn.fill_input # None => ~DictHas(turn.fill_input.v, s_error))
    /\ (session_state.extracted_info # None
            => ~DictHas(session_state.extracted_info.v, s_error))

(***************************************************************************)
(* The quota functions on their own.                                       *)
(***************************************************************************)
\* C3: from a fresh quota state and with no date change, after n calls of
\* increment_api_usage (not counting one undone by the rollback that
\* follows it) check_daily_quota returns True if and only if n < 20; after
\* reset_quota_for_testing or clear_session the count of increments starts
\* again at 0, so check_daily_quota returns True again whatever the count
\* was before.
C3_CheckTrueIffUnderLimit ==
    (quota_op.kind = "check" /\ ~day_changed)
        => (quota_op.ok <=> increments < DAILY_LIMIT)

C3_Witness ==
    /\ quota_op.kind = "check"
    /\ ~day_changed
    /\ ~quota_op.ok
    /\ increments = DAILY_LIMIT

(***************************************************************************)
(* The date rollover and the increment / rollback pair.                    *)
(***************************************************************************)
\* C11: when the stored last_reset_date differs from today and
\* check_daily_quota or get_remaining_quota is called, requests becomes 0
\* and last_reset_date becomes today whatever the count was, so the check
\* returns True and the snapshot reports used_requests = 0; when the stored
\* date is today neither call changes requests.
C11_RolloverResetsCount ==
    quota_op.kind \in { "check", "remaining" } =>
        LET before == quota_op.before
            after  == quota_state.api_usage
        IN  /\ after.present
            /\ IF before.last_reset_date # quota_day
               THEN /\ after.requests = 0
                    /\ after.last_reset_date = quota_day
                    /\ quota_op.kind = "check" => quota_op.ok
                    /\ quota_op.kind = "remaining" =>
                           /\ quota_op.info.used_requests = 0
                           /\ quota_op.info.remaining_requests = DAILY_LIMIT
               ELSE /\ after.requests = before.requests
                    /\ after.last_reset_date = before.last_reset_date

C11_Witness ==
    /\ quota_op.kind = "check"
    /\ quota_op.before.last_reset_date # quota_day
    /\ quota_op.before.requests >= DAILY_LIMIT
    /\ quota_op.ok
    /\ quota_state.api_usage.requests = 0

C11_WitnessSnapshot ==
    /\ quota_op.kind = "remaining"
    /\ quota_op.before.last_reset_date # quota_day
    /\ quota_op.before.requests > 0
    /\ quota_op.info.used_requests = 0

C11_WitnessSameDay ==
    /\ quota_op.kind \in { "check", "remaining" }
    /\ quota_op.before.last_reset_date = quota_day
    /\ quota_op.before.requests > 0

\* C12: from any quota state, increment_api_usage followed by the rollback
\* leaves requests at its value before the increment and last_reset_date
\* as it was (a missing record counts as requests 0 dated today, which is how
\* every quota function reads it).
C12_IncrementRollbackRestores ==
    quota_op.kind = "rollback" =>
        /\ quota_state.api_usage.present
        /\ quota_state.api_usage.requests = quota_op.before.requests
        /\ quota_state.api_usage.last_reset_date = quota_op.before.last_reset_date

C12_Witness ==
    /\ quota_op.kind = "rollback"
    /\ quota_op.before.requests >= DAILY_LIMIT
    /\ quota_op.before.last_reset_date # quota_day

(***************************************************************************)
(* Failing turns.                                                          *)
(***************************************************************************)
SttFailures ==
    { "unknown_value", "request_error", "exception" }

\* C13: whenever STTHandler.transcribe fails (unintelligible audio, request
\* error or unexpected exception), the run is aborted: audio_error is
\* recorded, nothing is appended to history, requests is unchanged and no
\* collaborator is called.
C13_SttFailureAbortsTurn ==
    [][(AudioRun /\ turn'.stt \in SttFailures) =>
          /\ turn'.kind = "transcription_failed"
          /\ session_state'.audio_error # None
          /\ session_state'.history = session_state.history
          /\ session_state'.api_usage = session_state.api_usage
          /\ turn'.called = "none"
          /\ calls' = calls]_vars

\* the run read a file of an unsupported type (doc_processor.py:21-22)
UnsupportedInputRun ==
    /\ session_state'.document_text = s_Unsupported
    /\ session_state.document_text # s_Unsupported

\* the run with recorded audio ended in a failed transcription, at the
\* closed quota gate, or in a failed collaborator call
FailedAudioRun ==
    /\ AudioRun
    /\ \/ turn'.kind = "transcription_failed"
       \/ turn'.stt \in SttFailures
       \/ turn'.gate = "closed"
       \/ turn'.rolled_back
       \/ turn'.result \in { "raised", "not_a_dict", "API_ERROR", "api_error_reply",
                             "RESOURCE_EXHAUSTED", "quota_reply" }

IsPrefix(s, t) ==
    Len(s) <= Len(t) /\ SubSeq(t, 1, Len(s)) = s

\* C14: a run that ends in a failure of any of the four kinds (unsupported
\* input, transcription failure, quota exhausted, collaborator failure)
\* leaves the history entries it found and the uploaded document_text as
\* they were.
C14_FailureLeavesHistoryAndDocument ==
    [][(UnsupportedInputRun \/ FailedAudioRun) =>
          /\ IsPrefix(session_state.history, session_state'.history)
          /\ session_state.document_text # << >> =>
                 session_state'.document_text = session_state.document_text]_vars

(***************************************************************************)
(* The filler's working text and table.                                    *)
(***************************************************************************)
\* C15: keys are processed in the dict's iteration order on one cumulative
\* working text: the exact and the synonym presence checks of a key read
\* the text left by all earlier keys, so a marker that an earlier value
\* brought in is replaced by a later key that matches it, and a marker an
\* earlier key consumed is not replaced by a later key.
C15_ChecksReadWorkingText ==
    /\ pos > 0 =>
          LET m == Placeholder(LastItem.key)
              synonymPresent ==
                  \E e \in ListsHolding(LastItem.key) : PresentSynonyms(e, prev_text) # {}
          IN  /\ path = "exact" <=> PyIn(m, prev_text)
              /\ path = "mapping" <=> (~PyIn(m, prev_text) /\ synonymPresent)
              /\ (PyIn(m, prev_text) /\ ~PyIn(m, template_text)) =>
                     /\ path = "exact"
                     /\ filled_text = PyReplace(prev_text, m, PyStr(LastItem.value))
              /\ (PyIn(m, template_text) /\ ~PyIn(m, prev_text)) =>
                     Occurrences(filled_text, m) = {}
    /\ pc = "returned" => pos = Len(data_dict)

\* the second key's marker is not in the template: the first key's value
\* brought it in
C15_Witness ==
    /\ pos = 2
    /\ path = "exact"
    /\ ~PyIn(Placeholder(LastItem.key), template_text)
    /\ PyIn(Placeholder(LastItem.key), prev_text)
    /\ filled_text # prev_text

\* the second key's marker was in the template and the first key consumed it
C15_WitnessConsumed ==
    /\ pos = 2
    /\ PyIn(Placeholder(LastItem.key), template_text)
    /\ ~PyIn(Placeholder(LastItem.key), prev_text)
    /\ filled_text = prev_text

StandardKeys ==
    { field_mappings[e].standard_key : e \in 1..Len(field_mappings) }

EightKeys ==
    { s_FullName, s_EmployeeID, s_Department, s_Company, s_StartDate, s_JobTitle,
      s_ManagerName, s_AnnualSalary }

\* C16 as stated: the table fill_template_from_dict runs with has exactly
\* eight entries (Full Name, Employee ID, Department, Company, Start Date,
\* Job Title, Manager Name, Annual Salary) and no other key.
C16_TableHasEightEntries ==
    pc \in { "loop", "returned" } =>
        /\ Len(field_mappings) = 8
        /\ StandardKeys = EightKeys

\* C16 as amended: the table fill_template_from_dict runs with has exactly
\* nine entries, the eight named and Name, whose synonym list is that of
\* Full Name, and no other key.
C16_TableHasNineEntries ==
    pc \in { "loop", "returned" } =>
        /\ Len(field_mappings) = 9
        /\ StandardKeys = EightKeys \cup { s_Name }
        /\ Cardinality(StandardKeys) = 9
        /\ \A e, f \in 1..Len(field_mappings) :
               (field_mappings[e].standard_key = s_Name
                   /\ field_mappings[f].standard_key = s_FullName)
                 => field_mappings[e].variations = field_mappings[f].variations

\* a key held by both the Full Name and the Name entry is filled through
\* the table
C16_Witness ==
    /\ pos > 0
    /\ path = "mapping"
    /\ LastItem.key = s_Name
    /\ Cardinality(ListsHolding(s_Name)) = 2

(***************************************************************************)
(* The request counter over the application's own runs.                    *)
(***************************************************************************)
\* C17: in every state the application reaches by its own runs (turns of
\* either branch that succeed, return an error value or raise; Stats; New
\* Session; debug reset; date change) 0 <= requests <= 20, and the rollback
\* runs only in a turn that ran the increment before it.
C17_CounterStaysInRange ==
    /\ session_state.api_usage.present =>
          /\ 0 <= Requests(session_state)
          /\ Requests(session_state) <= DAILY_LIMIT
    /\ turn.rolled_back =>
          /\ turn.gate = "open"
          /\ turn.called # "none"
          /\ session_state.api_usage.present
          /\ Requests(session_state) = turn.requests_at_gate

C17_Witness ==
    /\ turn.rolled_back
    /\ turn.requests_at_gate = DAILY_LIMIT - 1
    /\ Requests(session_state) = DAILY_LIMIT - 1

C17_WitnessAtLimit ==
    /\ Requests(session_state) = DAILY_LIMIT
    /\ turn.gate = "closed"

(***************************************************************************)
(* Templates without an opening bracket.                                   *)
(***************************************************************************)
\* C18: for a template text without any "[" fill_template_from_dict returns
\* the text unchanged for every dict, and no step changes the working text;
\* so a text that is_template accepts only for its "{{" and "}}" (which
\* main.py:489 sends to the template branch) has none of its {{label}}
\* markers substituted.
C18_NoOpenBracketNoChange ==
    OpenFree(template_text) =>
        /\ filled_text = template_text
        /\ pos > 0 => path \in { "partial", "unmatched" }

C18_Witness ==
    /\ pc = "returned"
    /\ OpenFree(template_text)
    /\ HasBracket(template_text)
    /\ \E i \in 1..Len(data_dict) :
           \E L \in { SubSeq(template_text, a, b) :
                        a \in 1..Len(template_text), b \in 1..Len(template_text) } :
               L # << >> /\ Related(data_dict[i].key, L)
    /\ filled_text = template_text

C18_WitnessBraces ==
    /\ pc = "returned"
    /\ is_template(template_text)
    /\ OpenFree(template_text)
    /\ Len(data_dict) >= 1
    /\ PyIn(<< "{", "{" >> \o data_dict[1].key \o << "}", "}" >>, template_text)
    /\ filled_text = template_text

====
